---- MODULE Spec2Model ----
(***************************************************************************)
(* Index construction of the knowledge-graph natural-language index:       *)
(*   src/src/bin/kg-entities.rs        (bin = "kg-entities")               *)
(*   src/src/bin/wikidata-entities.rs  (bin = "wikidata-entities")         *)
(* Records are taken after parsing.  Texts are TLA+ strings, so that       *)
(* format!("{label} ({info})") is real concatenation.  An entity is the    *)
(* number of its input line; identifiers are ordered like their lines.     *)
(* An input has 1 to NumEnts lines.                                        *)
(*   src/src/bin/kg-properties.rs      (bin = "kg-properties")             *)
(* is modelled from its parse loop to its output, and of kg-entities also  *)
(* the loading of the redirects, the rewriting of the types and the        *)
(* output step with its worker threads, each in a specification of its own.*)
(***************************************************************************)
EXTENDS Integers, Sequences, FiniteSets, TLC

VARIABLES
    bin,                 \* which binary runs
    args,                \* command line options (struct Args)
    pc,                  \* position in main
    ent_infos,           \* ent -> EntityInfo
    label_to_ents,       \* label -> Vec<ent>; groups not yet visited by pass 1
    aliases_to_ents,     \* alias -> Vec<ent>, after retain
    label_to_ent,        \* the index: key -> Ent
    label_info_to_ents,  \* kg-entities: (label, info) -> Vec<(count, ent)>
    label_desc_to_ents,  \* wikidata-entities: "label (desc)" -> Vec<ent>
    ents_left,           \* HashSet of entities without a label key
    alias_queue,         \* (ent, alias) pairs the alias pass has still to visit
    stats,               \* num_label_unique, num_label_info_unique, entities left
    index_tsv,           \* ent -> what is written for it (the surface forms of its row)
    lines,               \* the lines of the input file, as parsed
    types_left,          \* entities whose types are not yet rewritten
    redirect_lines,      \* the lines of the redirects file, split at the tab
    redirects,           \* ent -> Vec<ent>
    output_dict,         \* ent -> Vec<key>: the entries no worker has taken yet
    workers,             \* worker thread -> the entry it works on
    output,              \* Mutex<BufWriter> of index.tsv: the holder, the text written
    parsed,              \* the number of lines the running loop over lines has done
    prop_infos,          \* kg-properties: prop -> PropInfo
    label_to_prop,       \* kg-properties: the index: label -> Prop
    prop_queue           \* kg-properties: props the alias pass has still to visit

\* the state of the steps that have a specification of their own
others == <<lines, types_left, redirect_lines, redirects, output_dict, workers, output,
            parsed, prop_infos, label_to_prop, prop_queue>>

vars == <<bin, args, pc, ent_infos, label_to_ents, aliases_to_ents, label_to_ent,
          label_info_to_ents, label_desc_to_ents, ents_left, alias_queue, stats,
          index_tsv, others>>

---------------------------------------------------------------------------
(* Bounds of the input *)
NumEnts == 3
MaxCount == 2
MaxAliases == 2

\* the entities of the input
Ents == DOMAIN ent_infos
Labels == {"A", "A (x)"}
Descs == {"", "x", "y"}
AliasTexts == {"A"}

\* Every text of the model, in the byte order Rust's str comparison gives.
TextOrder == <<"", "A", "A (x)", "A (x) (x)", "A (x) (y)", "A (y)", "x", "y">>

StrRank(s) == CHOOSE i \in 1..Len(TextOrder) : TextOrder[i] = s

\* Option<T>
None == <<>>
Some(x) == <<x>>

\* Ent::{Label, LabelInfo, Alias, AliasInfo}(ent)
Ent(kind, ent) == [kind |-> kind, ent |-> ent]

EmptyMap == <<>>

\* HashMap::insert: the entry is replaced when the key exists
Insert(map, key, value) == (key :> value) @@ map

\* the map without one key (a group consumed by into_iter)
Without(map, key) == [k \in DOMAIN map \ {key} |-> map[k]]

Range(seq) == {seq[i] : i \in 1..Len(seq)}

\* format!("{label} ({info})")
format(label, info) == label \o " (" \o info \o ")"

\* EntityInfo::info: the last type, or the description
info(e) ==
    LET types == ent_infos[e].types
    IN  IF types # <<>> THEN types[Len(types)] ELSE ent_infos[e].desc

---------------------------------------------------------------------------
(* Loading: the maps built while the lines are parsed *)

EntSeq(infos) == [i \in 1..Len(infos) |-> i]

\* label_to_ents.entry(info.label).or_insert_with(Vec::new).push(ent)
LoadLabelToEnts(infos) ==
    [l \in {infos[e].label : e \in DOMAIN infos} |->
        SelectSeq(EntSeq(infos), LAMBDA e : infos[e].label = l)]

\* the pushes of one record for one alias: one per occurrence in its list
AliasPushes(infos, alias, e) ==
    LET occ == SelectSeq(infos[e].aliases, LAMBDA a : a = alias)
    IN  [i \in 1..Len(occ) |-> e]

RECURSIVE AliasEnts(_, _, _)
AliasEnts(infos, alias, n) ==
    IF n = 0 THEN <<>>
    ELSE AliasEnts(infos, alias, n - 1) \o AliasPushes(infos, alias, n)

\* aliases_to_ents, filled only with check_for_popular_aliases, then
\* aliases_to_ents.retain(|_, ents| ents.len() <= 1)
LoadAliasesToEnts(infos, check) ==
    LET all == IF check
               THEN UNION {Range(infos[e].aliases) : e \in DOMAIN infos}
               ELSE {}
        kept == {a \in all : Len(AliasEnts(infos, a, Len(infos))) <= 1}
    IN  [a \in kept |-> AliasEnts(infos, a, Len(infos))]

\* max_by_key over a sequence of entities: the last one of greatest count
RECURSIVE MaxByCount(_)
MaxByCount(ents) ==
    IF Len(ents) = 1 THEN ents[1]
    ELSE LET rest == MaxByCount(Tail(ents))
         IN  IF ent_infos[rest].count >= ent_infos[ents[1]].count
             THEN rest ELSE ents[1]

\* faulty variant: the comparison of the counts is not strict
check_for_more_popular_alias_ge(label, ent) ==
    IF label \notin DOMAIN aliases_to_ents THEN None
    ELSE LET cands == SelectSeq(aliases_to_ents[label], LAMBDA a : a # ent)
         IN  IF cands = <<>> THEN None
             ELSE IF ent_infos[MaxByCount(cands)].count >= ent_infos[ent].count
                  THEN Some(MaxByCount(cands))
                  ELSE None

\* the closure check_for_more_popular_alias
check_for_more_popular_alias(label, ent) ==
    IF label \notin DOMAIN aliases_to_ents THEN None
    ELSE LET cands == SelectSeq(aliases_to_ents[label], LAMBDA a : a # ent)
         IN  IF cands = <<>> THEN None
             ELSE IF ent_infos[MaxByCount(cands)].count > ent_infos[ent].count
                  THEN Some(MaxByCount(cands))
                  ELSE None

\* the oracle's verdict as the passes use it
Vetoed(label, ent) ==
    args.check_for_popular_aliases /\ check_for_more_popular_alias(label, ent) # None

---------------------------------------------------------------------------
(* The inputs *)

\* the alias lists of the records: MaxAliases aliases at most in the whole input
RECURSIVE SeqsUpTo(_, _)
SeqsUpTo(S, n) ==
    IF n = 0 THEN {<<>>}
    ELSE LET shorter == SeqsUpTo(S, n - 1)
         IN  shorter \cup {Append(s, x) : s \in {t \in shorter : Len(t) = n - 1}, x \in S}

RECURSIVE SumLen(_, _)
SumLen(f, n) == IF n = 0 THEN 0 ELSE SumLen(f, n - 1) + Len(f[n])

AliasInputs(n) ==
    {f \in [1..n -> SeqsUpTo(AliasTexts, MaxAliases)] : SumLen(f, n) <= MaxAliases}

\* the parsed lines of an input of n lines
InputsOf(n) ==
    {[e \in 1..n |-> [label |-> l[e], desc |-> d[e], count |-> c[e],
                      aliases |-> a[e], types |-> <<>>]] :
        l \in [1..n -> Labels], d \in [1..n -> Descs],
        c \in [1..n -> 1..MaxCount], a \in AliasInputs(n)}

Inputs == UNION {InputsOf(n) : n \in 1..NumEnts}

ArgSets ==
    [keep_most_common_non_unique : BOOLEAN, check_for_popular_aliases : BOOLEAN]

NoStats == [num_label_unique |-> 0, num_label_info_unique |-> 0, entities_left |-> 0]

\* the worker threads of the output step
NumWorkers == 2
Workers == 1..NumWorkers

\* no redirects file; the output step and kg-properties have not begun
NoRedirects == redirect_lines = <<>> /\ redirects = EmptyMap
NoOutputs ==
    /\ output_dict = EmptyMap
    /\ workers = [w \in Workers |-> None]
    /\ output = [holder |-> None, text |-> <<>>]
NoProps == parsed = 0 /\ prop_infos = EmptyMap /\ label_to_prop = EmptyMap /\ prop_queue = <<>>

\* the state when the first pass begins
Loaded(b, a, infos) ==
    /\ lines = infos
    /\ types_left = {}
    /\ NoRedirects /\ NoOutputs /\ NoProps
    /\ bin = b
    /\ args = a
    /\ pc = "labels"
    /\ ent_infos = infos
    /\ label_to_ents = LoadLabelToEnts(infos)
    /\ aliases_to_ents = LoadAliasesToEnts(infos, a.check_for_popular_aliases)
    /\ label_to_ent = EmptyMap
    /\ label_info_to_ents = EmptyMap
    /\ label_desc_to_ents = EmptyMap
    /\ ents_left = {}
    /\ alias_queue = <<>>
    /\ stats = NoStats
    /\ index_tsv = EmptyMap

InitKG == \E a \in ArgSets, infos \in Inputs : Loaded("kg-entities", a, infos)

---------------------------------------------------------------------------
(* kg-entities: pass 1, "adding unique labels" *)

PoolGet(pool, key) == IF key \in DOMAIN pool THEN pool[key] ELSE <<>>

\* faulty variant: the loop does not look for "label (info)" among the bare keys
RECURSIVE PushLabelInfos_unchecked(_, _, _)
PushLabelInfos_unchecked(pool, label, entities) ==
    IF entities = <<>> THEN pool
    ELSE LET ent == Head(entities)
             key == <<label, info(ent)>>
             pushed == Insert(pool, key,
                              Append(PoolGet(pool, key), <<ent_infos[ent].count, ent>>))
         IN  PushLabelInfos_unchecked(IF info(ent) = "" THEN pool ELSE pushed,
                                      label, Tail(entities))

\* the loop over the entities of a group that did not get the bare label,
\* run on the index `index`
RECURSIVE PushLabelInfosIn(_, _, _, _)
PushLabelInfosIn(index, pool, label, entities) ==
    IF entities = <<>> THEN pool
    ELSE LET ent == Head(entities)
             key == <<label, info(ent)>>
             skip == \/ info(ent) = ""
                     \/ <<format(label, info(ent)), None>> \in DOMAIN index
             pushed == Insert(pool, key,
                              Append(PoolGet(pool, key), <<ent_infos[ent].count, ent>>))
         IN  PushLabelInfosIn(index, IF skip THEN pool ELSE pushed, label, Tail(entities))

\* the loop, on the index of the state
PushLabelInfos(pool, label, entities) ==
    PushLabelInfosIn(label_to_ent, pool, label, entities)

\* assert!(label_to_ent.insert(key, value).is_none())
AssertInsert(key, value, next_pc) ==
    /\ label_to_ent' = Insert(label_to_ent, key, value)
    /\ pc' = IF key \in DOMAIN label_to_ent THEN "panic" ELSE next_pc

\* one iteration of `for (label, entities) in label_to_ents`, in any order
AddUniqueLabel(label) ==
    /\ bin = "kg-entities"
    /\ pc = "labels"
    /\ label \in DOMAIN label_to_ents
    /\ LET entities == label_to_ents[label]
       IN  IF Len(entities) <= 1 /\ ~Vetoed(label, entities[1])
           THEN /\ AssertInsert(<<label, None>>, Ent("Label", entities[1]), "labels")
                /\ UNCHANGED label_info_to_ents
           ELSE /\ label_info_to_ents' = PushLabelInfos(label_info_to_ents, label, entities)
                /\ UNCHANGED <<label_to_ent, pc>>
    /\ label_to_ents' = Without(label_to_ents, label)
    /\ UNCHANGED <<others, bin, args, ent_infos, aliases_to_ents, label_desc_to_ents, ents_left,
                   alias_queue, stats, index_tsv>>

\* the loop is over: num_label_unique, ents_left = HashSet::new()
FinishLabels ==
    /\ bin = "kg-entities"
    /\ pc = "labels"
    /\ DOMAIN label_to_ents = {}
    /\ pc' = "label_infos"
    /\ stats' = [stats EXCEPT !.num_label_unique = Cardinality(DOMAIN label_to_ent)]
    /\ ents_left' = {}
    /\ UNCHANGED <<others, bin, args, ent_infos, label_to_ents, aliases_to_ents, label_to_ent,
                   label_info_to_ents, label_desc_to_ents, alias_queue, index_tsv>>

---------------------------------------------------------------------------
(* kg-entities: pass 2, "adding label-info pairs" *)

RECURSIVE MaxCountOf(_)
\* entities.iter().map(|(c, _)| c).max().copied().unwrap_or(0)
MaxCountOf(entities) ==
    IF entities = <<>> THEN 0
    ELSE LET m == MaxCountOf(Tail(entities))
         IN  IF entities[1][1] > m THEN entities[1][1] ELSE m

\* (&str, &str) compared as tuples
KeyLess(k1, k2) ==
    \/ StrRank(k1[1]) < StrRank(k2[1])
    \/ k1[1] = k2[1] /\ StrRank(k1[2]) < StrRank(k2[2])

\* sorted_by_key(|(key, entities)| (Reverse(max), entities.len(), *key)),
\* for the groups of `pool`
GroupBeforeIn(pool, k1, k2) ==
    LET m1 == MaxCountOf(pool[k1])
        m2 == MaxCountOf(pool[k2])
        n1 == Len(pool[k1])
        n2 == Len(pool[k2])
    IN  \/ m1 > m2
        \/ m1 = m2 /\ n1 < n2
        \/ m1 = m2 /\ n1 = n2 /\ KeyLess(k1, k2)

GroupBefore(k1, k2) == GroupBeforeIn(label_info_to_ents, k1, k2)

\* the group the sorted iteration visits first among the groups of `pool`
NextGroupIn(pool) ==
    CHOOSE k \in DOMAIN pool : \A k2 \in DOMAIN pool \ {k} : GroupBeforeIn(pool, k, k2)

\* the group the sorted iteration visits next
NextGroup == NextGroupIn(label_info_to_ents)

\* faulty variant: the group is sorted in descending order of the counts
RECURSIVE SortByCount_descending(_)
SortByCount_descending(entities) ==
    IF entities = <<>> THEN <<>>
    ELSE LET n == Len(entities)
             x == entities[n]
             sorted == SortByCount_descending(SubSeq(entities, 1, n - 1))
         IN  SelectSeq(sorted, LAMBDA y : y[1] >= x[1]) \o <<x>>
                 \o SelectSeq(sorted, LAMBDA y : y[1] < x[1])

\* entities.sort_by_key(|(c, _)| *c): stable, ascending
RECURSIVE SortByCount(_)
SortByCount(entities) ==
    IF entities = <<>> THEN <<>>
    ELSE LET n == Len(entities)
             x == entities[n]
             sorted == SortByCount(SubSeq(entities, 1, n - 1))
         IN  SelectSeq(sorted, LAMBDA y : y[1] <= x[1]) \o <<x>>
                 \o SelectSeq(sorted, LAMBDA y : y[1] > x[1])

\* the key a promoted entity gets on the index `index`: the bare label when it
\* is free and not vetoed
LabelInfoKeyIn(index, label, inf, ent) ==
    IF <<label, None>> \in DOMAIN index \/ Vetoed(label, ent)
    THEN <<label, Some(inf)>>
    ELSE <<label, None>>

LabelInfoKey(label, inf, ent) == LabelInfoKeyIn(label_to_ent, label, inf, ent)

CommitLabelInfo(label, inf, ent) ==
    LET key == LabelInfoKey(label, inf, ent)
    IN  AssertInsert(key, Ent(IF key[2] = None THEN "Label" ELSE "LabelInfo", ent),
                     "label_infos")

\* one iteration of the loop over the sorted groups
AddLabelInfo ==
    /\ bin = "kg-entities"
    /\ pc = "label_infos"
    /\ DOMAIN label_info_to_ents # {}
    /\ LET key == NextGroup
           entities == label_info_to_ents[key]
           sorted == SortByCount(entities)
       IN  /\ IF Len(entities) <= 1
              THEN /\ CommitLabelInfo(key[1], key[2], entities[1][2])
                   /\ UNCHANGED ents_left
              ELSE IF args.keep_most_common_non_unique
              THEN /\ CommitLabelInfo(key[1], key[2], sorted[Len(sorted)][2])
                   /\ ents_left' = ents_left \cup
                          {sorted[i][2] : i \in 1..(Len(sorted) - 1)}
              ELSE /\ ents_left' = ents_left \cup {entities[i][2] : i \in 1..Len(entities)}
                   /\ UNCHANGED <<label_to_ent, pc>>
           /\ label_info_to_ents' = Without(label_info_to_ents, key)
    /\ UNCHANGED <<others, bin, args, ent_infos, label_to_ents, aliases_to_ents,
                   label_desc_to_ents, alias_queue, stats, index_tsv>>

\* faulty variant: the entities are sorted by their key alone
EntBefore_by_key(e1, e2) == e1 < e2

\* ent_infos sorted by (Reverse(info.count), key)
EntBefore(e1, e2) ==
    \/ ent_infos[e1].count > ent_infos[e2].count
    \/ ent_infos[e1].count = ent_infos[e2].count /\ e1 < e2

RECURSIVE SortedEnts(_)
SortedEnts(S) ==
    IF S = {} THEN <<>>
    ELSE LET first == CHOOSE e \in S : \A e2 \in S \ {e} : EntBefore(e, e2)
         IN  <<first>> \o SortedEnts(S \ {first})

\* the (ent, alias) pairs in the order the alias pass offers them
RECURSIVE AliasOffers(_)
AliasOffers(ents) ==
    IF ents = <<>> THEN <<>>
    ELSE LET e == Head(ents)
         IN  [i \in 1..Len(ent_infos[e].aliases) |-> <<e, ent_infos[e].aliases[i]>>]
                 \o AliasOffers(Tail(ents))

\* the loop is over: the statistics are printed, the alias pass is set up
FinishLabelInfos ==
    /\ bin = "kg-entities"
    /\ pc = "label_infos"
    /\ DOMAIN label_info_to_ents = {}
    /\ pc' = "aliases"
    /\ stats' = [stats EXCEPT !.num_label_info_unique = Cardinality(DOMAIN label_to_ent),
                              !.entities_left = Cardinality(ents_left)]
    /\ alias_queue' = AliasOffers(SortedEnts(Ents))
    /\ UNCHANGED <<others, bin, args, ent_infos, label_to_ents, aliases_to_ents, label_to_ent,
                   label_info_to_ents, label_desc_to_ents, ents_left, index_tsv>>

---------------------------------------------------------------------------
(* kg-entities: "adding aliases" *)

\* faulty variant: the alias is inserted whether or not the key is vacant
AliasKey_overwrite(ent, alias) == Some(<<alias, None>>)

\* faulty variant: when the bare key is taken the alias is given up
AliasKey_unqualified(ent, alias) ==
    IF <<alias, None>> \notin DOMAIN label_to_ent THEN Some(<<alias, None>>) ELSE None

\* the body of `for &alias in &info.aliases`, on the index `index`
AliasKeyIn(index, ent, alias) ==
    IF <<alias, None>> \notin DOMAIN index THEN Some(<<alias, None>>)
    ELSE IF info(ent) = "" THEN None
    ELSE IF <<alias, Some(info(ent))>> \notin DOMAIN index
    THEN Some(<<alias, Some(info(ent))>>)
    ELSE None

AliasKey(ent, alias) == AliasKeyIn(label_to_ent, ent, alias)

AddAlias ==
    /\ bin = "kg-entities"
    /\ pc = "aliases"
    /\ alias_queue # <<>>
    /\ LET ent == Head(alias_queue)[1]
           alias == Head(alias_queue)[2]
           key == AliasKey(ent, alias)
       IN  label_to_ent' =
               IF key = None THEN label_to_ent
               ELSE Insert(label_to_ent, key[1],
                           Ent(IF key[1][2] = None THEN "Alias" ELSE "AliasInfo", ent))
    /\ alias_queue' = Tail(alias_queue)
    /\ UNCHANGED <<others, bin, args, pc, ent_infos, label_to_ents, aliases_to_ents,
                   label_info_to_ents, label_desc_to_ents, ents_left, stats, index_tsv>>

---------------------------------------------------------------------------
(* kg-entities: "creating outputs" *)

is_alias(key) == label_to_ent[key].kind \in {"Alias", "AliasInfo"}

\* the text a key is written as
Surface(key) == IF key[2] = None THEN key[1] ELSE format(key[1], key[2][1])

Orders(S) == {s \in [1..Cardinality(S) -> S] : Range(s) = S}

\* output_dict: ent -> Vec<(key, is_alias)>, in the order the index is iterated
OutputDicts ==
    LET held == {label_to_ent[k].ent : k \in DOMAIN label_to_ent}
        keys(e) == {k \in DOMAIN label_to_ent : label_to_ent[k].ent = e}
    IN  {d \in [held -> UNION {Orders(keys(e)) : e \in held}] :
            \A e \in held : Range(d[e]) = keys(e)}

Texts(keys) == [i \in 1..Len(keys) |-> Surface(keys[i])]

org_label(labels) == Texts(SelectSeq(labels, LAMBDA k : k[2] = None /\ ~is_alias(k)))
info_label(labels) == Texts(SelectSeq(labels, LAMBDA k : k[2] # None /\ ~is_alias(k)))
aliases(labels) == Texts(SelectSeq(labels, LAMBDA k : k[2] = None /\ is_alias(k)))
alias_infos(labels) == Texts(SelectSeq(labels, LAMBDA k : k[2] # None /\ is_alias(k)))

\* faulty variant: the aliases are chained ahead of the own label
Row_aliases_first(labels) ==
    aliases(labels) \o org_label(labels) \o info_label(labels) \o alias_infos(labels)

\* the row of one entity: own label, label + info, aliases, alias + info
Row(labels) ==
    org_label(labels) \o info_label(labels) \o aliases(labels) \o alias_infos(labels)

\* assert!(org_label.len() + info_label.len() <= 1)
RowAssertion(labels) == Len(org_label(labels)) + Len(info_label(labels)) <= 1

CreateOutputs ==
    /\ bin = "kg-entities"
    /\ pc = "aliases"
    /\ alias_queue = <<>>
    /\ \E dict \in OutputDicts :
          IF \A e \in DOMAIN dict : RowAssertion(dict[e])
          THEN /\ index_tsv' = [e \in DOMAIN dict |-> Row(dict[e])]
               /\ pc' = "done"
          ELSE /\ index_tsv' = index_tsv
               /\ pc' = "panic"
    /\ UNCHANGED <<others, bin, args, ent_infos, label_to_ents, aliases_to_ents, label_to_ent,
                   label_info_to_ents, label_desc_to_ents, ents_left, alias_queue, stats>>

---------------------------------------------------------------------------
(* kg-entities: the index as a function of the order of pass 1 *)

\* pass 1 over the label groups in the order `order`: <<index, pool>>
RECURSIVE Pass1Of(_, _, _)
Pass1Of(index, pool, order) ==
    IF order = <<>> THEN <<index, pool>>
    ELSE LET label == Head(order)
             entities == LoadLabelToEnts(ent_infos)[label]
         IN  IF Len(entities) <= 1 /\ ~Vetoed(label, entities[1])
             THEN Pass1Of(Insert(index, <<label, None>>, Ent("Label", entities[1])),
                          pool, Tail(order))
             ELSE Pass1Of(index, PushLabelInfosIn(index, pool, label, entities),
                          Tail(order))

\* pass 2 over the groups of `pool` in their sorted order: the index
RECURSIVE Pass2Of(_, _)
Pass2Of(index, pool) ==
    IF DOMAIN pool = {} THEN index
    ELSE LET key == NextGroupIn(pool)
             entities == pool[key]
             sorted == SortByCount(entities)
             ent == IF Len(entities) <= 1 THEN entities[1][2] ELSE sorted[Len(sorted)][2]
             new == LabelInfoKeyIn(index, key[1], key[2], ent)
             kind == IF new[2] = None THEN "Label" ELSE "LabelInfo"
         IN  Pass2Of(IF Len(entities) <= 1 \/ args.keep_most_common_non_unique
                     THEN Insert(index, new, Ent(kind, ent))
                     ELSE index,
                     Without(pool, key))

\* the alias pass over the offers of `queue`: the index
RECURSIVE AliasesOf(_, _)
AliasesOf(index, queue) ==
    IF queue = <<>> THEN index
    ELSE LET ent == Head(queue)[1]
             key == AliasKeyIn(index, ent, Head(queue)[2])
             kind == IF key[1][2] = None THEN "Alias" ELSE "AliasInfo"
         IN  AliasesOf(IF key = None THEN index ELSE Insert(index, key[1], Ent(kind, ent)),
                       Tail(queue))

\* the final index of the run whose pass 1 visits the label groups in `order`
IndexOf(order) ==
    LET pass1 == Pass1Of(EmptyMap, EmptyMap, order)
    IN  AliasesOf(Pass2Of(pass1[1], pass1[2]), AliasOffers(SortedEnts(Ents)))

\* the orders in which the hash map may hand out the label groups
LabelOrders == Orders({ent_infos[e].label : e \in Ents})

NextKG ==
    \/ \E label \in Labels : AddUniqueLabel(label)
    \/ FinishLabels
    \/ AddLabelInfo
    \/ FinishLabelInfos
    \/ AddAlias
    \/ CreateOutputs

SpecKG == InitKG /\ [][NextKG]_vars

---------------------------------------------------------------------------
(* wikidata-entities: the bare-label pass *)

InitWD == \E a \in ArgSets, infos \in Inputs : Loaded("wikidata-entities", a, infos)

\* entities.sort_by_key(|ent| ent_infos.get(ent.as_str()).unwrap().count)
RECURSIVE SortEntsByCount(_)
SortEntsByCount(entities) ==
    IF entities = <<>> THEN <<>>
    ELSE LET n == Len(entities)
             x == entities[n]
             sorted == SortEntsByCount(SubSeq(entities, 1, n - 1))
         IN  SelectSeq(sorted, LAMBDA y : ent_infos[y].count <= ent_infos[x].count)
                 \o <<x>>
                 \o SelectSeq(sorted, LAMBDA y : ent_infos[y].count > ent_infos[x].count)

\* faulty variant: the most common entity is read with last() and stays in the group
WD_Pending_keeps_winner(label, entities) ==
    IF Len(entities) <= 1 THEN entities
    ELSE IF args.keep_most_common_non_unique THEN SortEntsByCount(entities)
    ELSE entities

\* the entities of a group that go on to the label + description pool
WD_Pending(label, entities) ==
    IF Len(entities) <= 1 THEN entities
    ELSE IF args.keep_most_common_non_unique
    THEN LET sorted == SortEntsByCount(entities)
         IN  IF ~Vetoed(label, sorted[Len(sorted)])
             THEN SubSeq(sorted, 1, Len(sorted) - 1)
             ELSE sorted
    ELSE entities

\* the loop that fills label_desc_to_ents; index is the index after the commit
RECURSIVE WD_PushLabelDescs(_, _, _, _)
WD_PushLabelDescs(pool, index, label, entities) ==
    IF entities = <<>> THEN pool
    ELSE LET ent == Head(entities)
             desc == ent_infos[ent].desc
             label_desc == format(label, desc)
             skip == desc = "" \/ label_desc \in DOMAIN index
             pushed == Insert(pool, label_desc, Append(PoolGet(pool, label_desc), ent))
         IN  WD_PushLabelDescs(IF skip THEN pool ELSE pushed, index, label, Tail(entities))

\* one iteration of `for (label, mut entities) in label_to_ents`, in any order
WD_AddLabel(label) ==
    /\ bin = "wikidata-entities"
    /\ pc = "labels"
    /\ label \in DOMAIN label_to_ents
    /\ LET entities == label_to_ents[label]
           sorted == SortEntsByCount(entities)
           winner == IF Len(entities) <= 1 THEN entities[1] ELSE sorted[Len(sorted)]
           commit == /\ Len(entities) <= 1 \/ args.keep_most_common_non_unique
                     /\ ~Vetoed(label, winner)
           index == IF commit THEN Insert(label_to_ent, label, Ent("Label", winner))
                    ELSE label_to_ent
       IN  /\ label_to_ent' = index
           /\ label_desc_to_ents' =
                  IF Len(entities) <= 1 /\ commit THEN label_desc_to_ents
                  ELSE WD_PushLabelDescs(label_desc_to_ents, index, label,
                                         WD_Pending(label, entities))
    /\ label_to_ents' = Without(label_to_ents, label)
    /\ UNCHANGED <<others, bin, args, pc, ent_infos, aliases_to_ents, label_info_to_ents,
                   ents_left, alias_queue, stats, index_tsv>>

\* assert!(label_to_ent.iter().unique_by(|&(_, ent)| ent).count() == label_to_ent.len())
UniqueByEnt ==
    Cardinality({label_to_ent[k] : k \in DOMAIN label_to_ent})
        = Cardinality(DOMAIN label_to_ent)

WD_FinishLabels ==
    /\ bin = "wikidata-entities"
    /\ pc = "labels"
    /\ DOMAIN label_to_ents = {}
    /\ pc' = IF UniqueByEnt THEN "label_descs" ELSE "panic"
    /\ stats' = [stats EXCEPT !.num_label_unique = Cardinality(DOMAIN label_to_ent)]
    /\ ents_left' = {}
    /\ UNCHANGED <<others, bin, args, ent_infos, label_to_ents, aliases_to_ents, label_to_ent,
                   label_info_to_ents, label_desc_to_ents, alias_queue, index_tsv>>

---------------------------------------------------------------------------
(* wikidata-entities: the label + description pass *)

\* one iteration of `for (label, mut entities) in label_desc_to_ents`, in any order
WD_AddLabelDesc(label_desc) ==
    /\ bin = "wikidata-entities"
    /\ pc = "label_descs"
    /\ label_desc \in DOMAIN label_desc_to_ents
    /\ LET entities == label_desc_to_ents[label_desc]
           sorted == SortEntsByCount(entities)
       IN  IF Len(entities) <= 1
           THEN /\ label_to_ent' =
                       Insert(label_to_ent, label_desc, Ent("LabelDesc", entities[1]))
                /\ UNCHANGED ents_left
           ELSE IF args.keep_most_common_non_unique
           THEN /\ label_to_ent' =
                       Insert(label_to_ent, label_desc, Ent("LabelDesc", sorted[Len(sorted)]))
                /\ ents_left' = ents_left \cup {sorted[i] : i \in 1..(Len(sorted) - 1)}
           ELSE /\ ents_left' = ents_left \cup Range(entities)
                /\ UNCHANGED label_to_ent
    /\ label_desc_to_ents' = Without(label_desc_to_ents, label_desc)
    /\ UNCHANGED <<others, bin, args, pc, ent_infos, label_to_ents, aliases_to_ents,
                   label_info_to_ents, alias_queue, stats, index_tsv>>

\* faulty variant: the entities are sorted by their count alone
WD_AliasOrders_by_count ==
    {order \in Orders(Ents) :
        \A i, j \in 1..Len(order) :
            i < j => ent_infos[order[i]].count >= ent_infos[order[j]].count}

\* sorted_by_key(|&(ent, info)| (ents_left.contains(ent), info.count)).rev():
\* entities of equal key come in the order of the hash map
WD_AliasOrders ==
    LET key(e) == <<IF e \in ents_left THEN 1 ELSE 0, ent_infos[e].count>>
        after(e1, e2) == \/ key(e1)[1] < key(e2)[1]
                         \/ key(e1)[1] = key(e2)[1] /\ key(e1)[2] < key(e2)[2]
    IN  {order \in Orders(Ents) :
            \A i, j \in 1..Len(order) : i < j => ~after(order[i], order[j])}

\* the loop is over: the assertion, the statistics, the order of the alias pass
WD_FinishLabelDescs ==
    /\ bin = "wikidata-entities"
    /\ pc = "label_descs"
    /\ DOMAIN label_desc_to_ents = {}
    /\ stats' = [stats EXCEPT !.num_label_info_unique = Cardinality(DOMAIN label_to_ent),
                              !.entities_left = Cardinality(ents_left)]
    /\ IF UniqueByEnt
       THEN /\ pc' = "aliases"
            /\ \E order \in WD_AliasOrders : alias_queue' = AliasOffers(order)
       ELSE /\ pc' = "panic"
            /\ alias_queue' = alias_queue
    /\ UNCHANGED <<others, bin, args, ent_infos, label_to_ents, aliases_to_ents, label_to_ent,
                   label_info_to_ents, label_desc_to_ents, ents_left, index_tsv>>

---------------------------------------------------------------------------
(* wikidata-entities: the alias pass and the output *)

\* faulty variant: the alias is inserted whether or not the key is vacant
WD_AliasKey_overwrite(ent, alias) == Some(alias)

\* the body of `for alias in &info.aliases`
WD_AliasKey(ent, alias) ==
    IF alias \notin DOMAIN label_to_ent THEN Some(alias)
    ELSE IF ent_infos[ent].desc = "" THEN None
    ELSE IF format(alias, ent_infos[ent].desc) \notin DOMAIN label_to_ent
    THEN Some(format(alias, ent_infos[ent].desc))
    ELSE None

WD_AddAlias ==
    /\ bin = "wikidata-entities"
    /\ pc = "aliases"
    /\ alias_queue # <<>>
    /\ LET ent == Head(alias_queue)[1]
           alias == Head(alias_queue)[2]
           key == WD_AliasKey(ent, alias)
       IN  IF key = None
           THEN UNCHANGED <<label_to_ent, ents_left>>
           ELSE /\ label_to_ent' =
                       Insert(label_to_ent, key[1],
                              Ent(IF key[1] = alias THEN "Alias" ELSE "AliasDesc", ent))
                /\ ents_left' = ents_left \ {ent}
    /\ alias_queue' = Tail(alias_queue)
    /\ UNCHANGED <<others, bin, args, pc, ent_infos, label_to_ents, aliases_to_ents,
                   label_info_to_ents, label_desc_to_ents, stats, index_tsv>>

\* the surface forms of one kind an entity holds
WD_Forms(ent, kind) ==
    {k \in DOMAIN label_to_ent : label_to_ent[k] = Ent(kind, ent)}

\* the rows an entity may get: own label, label + description, aliases, alias +
\* description; the order inside the two alias groups is taken as arbitrary
WD_Rows(ent) ==
    {o \o d \o a \o ad :
        o \in Orders(WD_Forms(ent, "Label")), d \in Orders(WD_Forms(ent, "LabelDesc")),
        a \in Orders(WD_Forms(ent, "Alias")), ad \in Orders(WD_Forms(ent, "AliasDesc"))}

\* assert!(org_label.len() + desc_label.len() <= 1)
WD_RowAssertion(ent) ==
    Cardinality(WD_Forms(ent, "Label")) + Cardinality(WD_Forms(ent, "LabelDesc")) <= 1

\* faulty variant: any alias key, with or without description, gives the raw label
WD_CanonicalLabel_any_alias(ent) ==
    LET own == WD_Forms(ent, "Label") \cup WD_Forms(ent, "LabelDesc")
    IN  IF own # {} THEN CHOOSE l \in own : TRUE
        ELSE IF \/ WD_Forms(ent, "Alias") \cup WD_Forms(ent, "AliasDesc") # {}
                \/ ent_infos[ent].desc = ""
        THEN ent_infos[ent].label
        ELSE format(ent_infos[ent].label, ent_infos[ent].desc)

\* `let label = ...`: the label the aliases of an entity are sorted against
WD_CanonicalLabel(ent) ==
    LET own == WD_Forms(ent, "Label") \cup WD_Forms(ent, "LabelDesc")
    IN  IF own # {} THEN CHOOSE l \in own : TRUE
        ELSE IF WD_Forms(ent, "Alias") # {} \/ ent_infos[ent].desc = ""
        THEN ent_infos[ent].label
        ELSE format(ent_infos[ent].label, ent_infos[ent].desc)

\* index_tsv keeps, for each entity, its label and the forms written for it
WD_CreateOutputs ==
    /\ bin = "wikidata-entities"
    /\ pc = "aliases"
    /\ alias_queue = <<>>
    /\ LET held == {label_to_ent[k].ent : k \in DOMAIN label_to_ent}
       IN  IF \A e \in held : WD_RowAssertion(e)
           THEN /\ \E rows \in [held -> UNION {WD_Rows(e) : e \in held}] :
                      /\ \A e \in held : rows[e] \in WD_Rows(e)
                      /\ index_tsv' = [e \in held |->
                                          [label |-> WD_CanonicalLabel(e), forms |-> rows[e]]]
                /\ pc' = "done"
           ELSE /\ index_tsv' = index_tsv
                /\ pc' = "panic"
    /\ UNCHANGED <<others, bin, args, ent_infos, label_to_ents, aliases_to_ents, label_to_ent,
                   label_info_to_ents, label_desc_to_ents, ents_left, alias_queue, stats>>

NextWD ==
    \/ \E label \in Labels : WD_AddLabel(label)
    \/ WD_FinishLabels
    \/ \E label_desc \in DOMAIN label_desc_to_ents : WD_AddLabelDesc(label_desc)
    \/ WD_FinishLabelDescs
    \/ WD_AddAlias
    \/ WD_CreateOutputs

SpecWD == InitWD /\ [][NextWD]_vars

\* either binary, on any input
Init == InitKG \/ InitWD
Next == NextKG \/ NextWD
Spec == Init /\ [][Next]_vars

---------------------------------------------------------------------------
(* kg-entities: "creating outputs" with its worker threads.                 *)
(* output_dict.into_par_iter().try_for_each(..) hands every entry to one    *)
(* worker; a worker computes the row, then locks the writer of index.tsv,   *)
(* writes the id, the forms and the end of the line through the guard, and  *)
(* drops the guard at the end of the writeln! statement.                    *)

\* the inputs of this specification have 1 to NumOutEnts lines
NumOutEnts == 2
OutInputs == UNION {InputsOf(n) : n \in 1..NumOutEnts}

InitOut == \E a \in ArgSets, infos \in OutInputs : Loaded("kg-entities", a, infos)

\* `for (label, ent) in &label_to_ent`: output_dict is built
StartOutputs ==
    /\ bin = "kg-entities"
    /\ pc = "aliases"
    /\ alias_queue = <<>>
    /\ pc' = "outputs"
    /\ output_dict' \in OutputDicts
    /\ UNCHANGED <<bin, args, ent_infos, label_to_ents, aliases_to_ents, label_to_ent,
                   label_info_to_ents, label_desc_to_ents, ents_left, alias_queue, stats,
                   index_tsv, lines, types_left, redirect_lines, redirects, workers,
                   output, parsed, prop_infos, label_to_prop, prop_queue>>

\* what writeln!(.., "{}\t{}", id, forms) hands to the writer, piece by piece
Pieces(ent, labels) ==
    << [ent |-> ent, part |-> "id", forms |-> <<>>],
       [ent |-> ent, part |-> "forms", forms |-> Row(labels)],
       [ent |-> ent, part |-> "newline", forms |-> <<>>] >>

\* a worker takes an entry and computes its row; a failed assertion is a panic
TakeEntry(w, ent) ==
    /\ bin = "kg-entities"
    /\ pc = "outputs"
    /\ workers[w] = None
    /\ ent \in DOMAIN output_dict
    /\ output_dict' = Without(output_dict, ent)
    /\ IF RowAssertion(output_dict[ent])
       THEN /\ workers' = [workers EXCEPT
                              ![w] = Some([pieces |-> Pieces(ent, output_dict[ent]), at |-> 0])]
            /\ pc' = pc
       ELSE /\ workers' = workers
            /\ pc' = "panic"
    /\ UNCHANGED <<bin, args, ent_infos, label_to_ents, aliases_to_ents, label_to_ent,
                   label_info_to_ents, label_desc_to_ents, ents_left, alias_queue, stats,
                   index_tsv, lines, types_left, redirect_lines, redirects,
                   output, parsed, prop_infos, label_to_prop, prop_queue>>

\* faulty variant: lock() does not wait for the holder
MutexFree_unguarded == TRUE

\* Mutex::lock returns when no thread holds the mutex
MutexFree == output.holder = None

\* output.lock().unwrap()
LockOutput(w) ==
    /\ bin = "kg-entities"
    /\ pc = "outputs"
    /\ workers[w] # None
    /\ workers[w][1].at = 0
    /\ MutexFree
    /\ output' = [output EXCEPT !.holder = Some(w)]
    /\ workers' = [workers EXCEPT ![w] = Some([workers[w][1] EXCEPT !.at = 1])]
    /\ UNCHANGED <<bin, args, pc, ent_infos, label_to_ents, aliases_to_ents, label_to_ent,
                   label_info_to_ents, label_desc_to_ents, ents_left, alias_queue, stats,
                   index_tsv, lines, types_left, redirect_lines, redirects, output_dict,
                   parsed, prop_infos, label_to_prop, prop_queue>>

\* the next piece is written through the guard; after the last one the guard
\* is dropped and the worker is free for another entry
WritePiece(w) ==
    /\ bin = "kg-entities"
    /\ pc = "outputs"
    /\ workers[w] # None
    /\ workers[w][1].at >= 1
    /\ LET job == workers[w][1]
           last == job.at = Len(job.pieces)
       IN  /\ output' = [holder |-> IF last THEN None ELSE output.holder,
                         text |-> Append(output.text, job.pieces[job.at])]
           /\ workers' = [workers EXCEPT
                             ![w] = IF last THEN None
                                    ELSE Some([job EXCEPT !.at = job.at + 1])]
    /\ UNCHANGED <<bin, args, pc, ent_infos, label_to_ents, aliases_to_ents, label_to_ent,
                   label_info_to_ents, label_desc_to_ents, ents_left, alias_queue, stats,
                   index_tsv, lines, types_left, redirect_lines, redirects, output_dict,
                   parsed, prop_infos, label_to_prop, prop_queue>>

\* the rows of the text written, by the entity of their id piece
RowsWritten(text) ==
    LET ents == {text[i].ent : i \in 1..Len(text)}
    IN  [e \in ents |->
            (CHOOSE i \in 1..Len(text) : text[i].ent = e /\ text[i].part = "forms")]

\* try_for_each returns: every entry was taken and written
FinishOutputs ==
    /\ bin = "kg-entities"
    /\ pc = "outputs"
    /\ output_dict = EmptyMap
    /\ \A w \in Workers : workers[w] = None
    /\ pc' = "done"
    /\ index_tsv' = [e \in DOMAIN RowsWritten(output.text) |->
                         output.text[RowsWritten(output.text)[e]].forms]
    /\ UNCHANGED <<bin, args, ent_infos, label_to_ents, aliases_to_ents, label_to_ent,
                   label_info_to_ents, label_desc_to_ents, ents_left, alias_queue, stats,
                   others>>

NextOut ==
    \/ \E label \in Labels : AddUniqueLabel(label)
    \/ FinishLabels
    \/ AddLabelInfo
    \/ FinishLabelInfos
    \/ AddAlias
    \/ StartOutputs
    \/ \E w \in Workers : \E ent \in DOMAIN output_dict : TakeEntry(w, ent)
    \/ \E w \in Workers : LockOutput(w)
    \/ \E w \in Workers : WritePiece(w)
    \/ FinishOutputs

SpecOut == InitOut /\ [][NextOut]_vars

---------------------------------------------------------------------------
(* kg-properties, from the parse loop to the output.  A line is taken after *)
(* parse_property: the identifier, the label, the count and the aliases;    *)
(* two lines may carry the same identifier.  The inverses and the lines of  *)
(* include_wikidata_qualifiers take no part in the index and are left out.  *)

NumProps == 3
PropIds == {"P1", "P2"}
PropLabels == {"A", "B"}
PropAliasTexts == {"A", "C"}

\* Prop::{Label, Alias}(prop)
Prop(kind, prop) == [kind |-> kind, prop |-> prop]

\* the alias columns of n lines: MaxAliases aliases at most in the whole input
PropAliasInputs(n) ==
    {f \in [1..n -> SeqsUpTo(PropAliasTexts, MaxAliases)] : SumLen(f, n) <= MaxAliases}

\* the parsed lines of an input of n lines
PropInputsOf(n) ==
    {[i \in 1..n |-> [prop |-> p[i], label |-> l[i], count |-> c[i], aliases |-> a[i]]] :
        p \in [1..n -> PropIds], l \in [1..n -> PropLabels],
        c \in [1..n -> 1..MaxCount], a \in PropAliasInputs(n)}

PropInputs == UNION {PropInputsOf(n) : n \in 1..NumProps}

\* the state when the parse loop begins
InitProps ==
    /\ bin = "kg-properties"
    /\ args \in [no_aliases : BOOLEAN]
    /\ pc = "parse"
    /\ lines \in PropInputs
    /\ NoProps /\ NoRedirects /\ NoOutputs
    /\ types_left = {}
    /\ ent_infos = <<>>
    /\ label_to_ents = EmptyMap
    /\ aliases_to_ents = EmptyMap
    /\ label_to_ent = EmptyMap
    /\ label_info_to_ents = EmptyMap
    /\ label_desc_to_ents = EmptyMap
    /\ ents_left = {}
    /\ alias_queue = <<>>
    /\ stats = NoStats
    /\ index_tsv = EmptyMap

\* match label_to_prop.entry(info.label.clone()) { Occupied .. Vacant .. }
LabelContest(index, infos, line) ==
    IF line.label \in DOMAIN index
    THEN IF line.count > infos[index[line.label].prop].count
         THEN Insert(index, line.label, Prop("Label", line.prop))
         ELSE index
    ELSE Insert(index, line.label, Prop("Label", line.prop))

\* one iteration of `for line in &lines`
ParseProperty ==
    /\ bin = "kg-properties"
    /\ pc = "parse"
    /\ parsed < Len(lines)
    /\ LET line == lines[parsed + 1]
       IN  /\ label_to_prop' = LabelContest(label_to_prop, prop_infos, line)
           /\ prop_infos' = Insert(prop_infos, line.prop,
                                   [label |-> line.label, count |-> line.count,
                                    aliases |-> line.aliases])
    /\ parsed' = parsed + 1
    /\ UNCHANGED <<bin, args, pc, ent_infos, label_to_ents, aliases_to_ents, label_to_ent,
                   label_info_to_ents, label_desc_to_ents, ents_left, alias_queue, stats,
                   index_tsv, lines, types_left, redirect_lines, redirects, output_dict,
                   workers, output, prop_queue>>

\* the loop is over: num_label_unique; with aliases, the order in which
\* `for (prop, info) in &prop_infos` will hand out the properties
FinishParse ==
    /\ bin = "kg-properties"
    /\ pc = "parse"
    /\ parsed = Len(lines)
    /\ pc' = "aliases"
    /\ stats' = [stats EXCEPT !.num_label_unique = Cardinality(DOMAIN label_to_prop)]
    /\ IF args.no_aliases
       THEN prop_queue' = <<>>
       ELSE prop_queue' \in Orders(DOMAIN prop_infos)
    /\ UNCHANGED <<bin, args, ent_infos, label_to_ents, aliases_to_ents, label_to_ent,
                   label_info_to_ents, label_desc_to_ents, ents_left, alias_queue,
                   index_tsv, lines, types_left, redirect_lines, redirects, output_dict,
                   workers, output, parsed, prop_infos, label_to_prop>>

\* the number of times a text stands in a sequence of alias lists
RECURSIVE Occurrences(_, _)
Occurrences(alias, lists) ==
    IF lists = <<>> THEN 0
    ELSE Len(SelectSeq(Head(lists), LAMBDA a : a = alias)) + Occurrences(alias, Tail(lists))

\* the alias lists of prop_infos.values(), in some order
AliasLists ==
    LET order == CHOOSE o \in Orders(DOMAIN prop_infos) : TRUE
    IN  [i \in 1..Len(order) |-> prop_infos[order[i]].aliases]

\* faulty variant: an alias is counted once for each property that lists it
alias_counts_by_prop(alias) ==
    Cardinality({p \in DOMAIN prop_infos :
                    \E i \in 1..Len(prop_infos[p].aliases) : prop_infos[p].aliases[i] = alias})

\* alias_counts[alias]: the fold over all alias lists
alias_counts(alias) == Occurrences(alias, AliasLists)

\* `for alias in &info.aliases` for the property prop, from the index `index`
RECURSIVE AddPropAliasesIn(_, _, _)
AddPropAliasesIn(index, prop, list) ==
    IF list = <<>> THEN index
    ELSE LET alias == Head(list)
             skip == alias_counts(alias) # 1 \/ alias \in DOMAIN index
         IN  AddPropAliasesIn(IF skip THEN index ELSE Insert(index, alias, Prop("Alias", prop)),
                              prop, Tail(list))

\* one iteration of `for (prop, info) in &prop_infos`
AddPropAliases ==
    /\ bin = "kg-properties"
    /\ pc = "aliases"
    /\ prop_queue # <<>>
    /\ label_to_prop' = AddPropAliasesIn(label_to_prop, Head(prop_queue),
                                         prop_infos[Head(prop_queue)].aliases)
    /\ prop_queue' = Tail(prop_queue)
    /\ UNCHANGED <<bin, args, pc, ent_infos, label_to_ents, aliases_to_ents, label_to_ent,
                   label_info_to_ents, label_desc_to_ents, ents_left, alias_queue, stats,
                   index_tsv, lines, types_left, redirect_lines, redirects, output_dict,
                   workers, output, parsed, prop_infos>>

\* the keys of one kind a property holds
PropForms(prop, kind) ==
    {l \in DOMAIN label_to_prop : label_to_prop[l] = Prop(kind, prop)}

\* the rows a property may get: labels.sort(), reverse(), pop() takes a Label
\* when there is one; the other forms are sorted by their edit distance to
\* it, an order that is taken as arbitrary
PropRows(prop) ==
    {<<label>> \o rest :
        label \in PropForms(prop, "Label"),
        rest \in UNION {Orders((PropForms(prop, "Label") \cup PropForms(prop, "Alias")) \ {l}) :
                           l \in PropForms(prop, "Label")}}

\* assert!(matches!(label, Prop::Label(_)))
PropAssertion(prop) == PropForms(prop, "Label") # {}

\* the output loop; a failed assertion is a panic
WriteProps ==
    /\ bin = "kg-properties"
    /\ pc = "aliases"
    /\ prop_queue = <<>>
    /\ LET held == {label_to_prop[l].prop : l \in DOMAIN label_to_prop}
       IN  IF \A p \in held : PropAssertion(p)
           THEN /\ \E rows \in [held -> UNION {PropRows(p) : p \in held}] :
                      /\ \A p \in held :
                            /\ rows[p] \in PropRows(p)
                            /\ Len(rows[p]) = Cardinality(PropForms(p, "Label"))
                                                + Cardinality(PropForms(p, "Alias"))
                      /\ index_tsv' = rows
                /\ pc' = "done"
           ELSE /\ index_tsv' = index_tsv
                /\ pc' = "panic"
    /\ UNCHANGED <<bin, args, ent_infos, label_to_ents, aliases_to_ents, label_to_ent,
                   label_info_to_ents, label_desc_to_ents, ents_left, alias_queue, stats,
                   others>>

NextProps ==
    \/ ParseProperty
    \/ FinishParse
    \/ AddPropAliases
    \/ WriteProps

SpecProps == InitProps /\ [][NextProps]_vars

---------------------------------------------------------------------------
(* kg-entities: the loading of the redirects file.  A line is taken after  *)
(* its split at the tab, with its two columns: the source and the targets, *)
(* the latter split at "; ".                                               *)

NumRedirects == 2
MaxTargets == 2
RawIds == {"<e/Q1>", "<e/Q2>", "junk"}

\* kg.ent_pattern.captures(raw).get(1): what follows the prefix of the
\* knowledge base, written e/ here, in a text that has this prefix
ent_pattern(raw) ==
    IF raw = "<e/Q1>" THEN Some("Q1")
    ELSE IF raw = "<e/Q2>" THEN Some("Q2")
    ELSE IF raw = "<e/Q3>" THEN Some("Q3")
    ELSE None

RedirectInputs ==
    UNION {[1..n -> [source : RawIds, targets : SeqsUpTo(RawIds, MaxTargets)]] :
              n \in 1..NumRedirects}

\* the state when `for line in lines` of the redirects begins
InitRedirects ==
    /\ bin = "kg-entities"
    /\ args \in ArgSets
    /\ pc = "redirects"
    /\ redirect_lines \in RedirectInputs
    /\ redirects = EmptyMap
    /\ lines = <<>>
    /\ types_left = {}
    /\ NoProps /\ NoOutputs
    /\ ent_infos = <<>>
    /\ label_to_ents = EmptyMap
    /\ aliases_to_ents = EmptyMap
    /\ label_to_ent = EmptyMap
    /\ label_info_to_ents = EmptyMap
    /\ label_desc_to_ents = EmptyMap
    /\ ents_left = {}
    /\ alias_queue = <<>>
    /\ stats = NoStats
    /\ index_tsv = EmptyMap

\* the targets of a line, each through the pattern
Redirs(line) == [i \in 1..Len(line.targets) |-> ent_pattern(line.targets[i])[1]]

\* one iteration of the loop: a source that does not match is passed over, a
\* target that does not match is a panic, a line without target is passed over
LoadRedirect ==
    /\ bin = "kg-entities"
    /\ pc = "redirects"
    /\ parsed < Len(redirect_lines)
    /\ LET line == redirect_lines[parsed + 1]
       IN  IF ent_pattern(line.source) = None
           THEN parsed' = parsed + 1 /\ UNCHANGED <<pc, redirects>>
           ELSE IF \E i \in 1..Len(line.targets) : ent_pattern(line.targets[i]) = None
           THEN pc' = "panic" /\ UNCHANGED <<parsed, redirects>>
           ELSE IF line.targets = <<>>
           THEN parsed' = parsed + 1 /\ UNCHANGED <<pc, redirects>>
           ELSE /\ redirects' = Insert(redirects, ent_pattern(line.source)[1], Redirs(line))
                /\ parsed' = parsed + 1
                /\ pc' = pc
    /\ UNCHANGED <<bin, args, ent_infos, label_to_ents, aliases_to_ents, label_to_ent,
                   label_info_to_ents, label_desc_to_ents, ents_left, alias_queue, stats,
                   index_tsv, lines, types_left, redirect_lines, output_dict, workers,
                   output, prop_infos, label_to_prop, prop_queue>>

\* the loop is over: the map of the redirects is handed to the loading of the
\* entities
FinishRedirects ==
    /\ bin = "kg-entities"
    /\ pc = "redirects"
    /\ parsed = Len(redirect_lines)
    /\ pc' = "loading"
    /\ UNCHANGED <<bin, args, ent_infos, label_to_ents, aliases_to_ents, label_to_ent,
                   label_info_to_ents, label_desc_to_ents, ents_left, alias_queue, stats,
                   index_tsv, others>>

NextRedirects ==
    \/ LoadRedirect
    \/ FinishRedirects

SpecRedirects == InitRedirects /\ [][NextRedirects]_vars

---------------------------------------------------------------------------
(* kg-entities: the types, from parse_entity to the rewriting of the type  *)
(* lists.  A line keeps its first column and its column of types as they   *)
(* stand in the file; the entity of line k is Qk, written with the prefix  *)
(* of the knowledge base in angle brackets or bare.                        *)

NumTypeEnts == 2
MaxTypes == 2
TypeItems == {"<e/Q1>", "<e/Q2>", "<e/Q3>", "junk"}
TypeLabels == {"A", "B"}

\* the first column of line k, in one of its two forms
FirstColumn(k, uri) ==
    IF uri THEN (IF k = 1 THEN "<e/Q1>" ELSE IF k = 2 THEN "<e/Q2>" ELSE "<e/Q3>")
    ELSE (IF k = 1 THEN "Q1" ELSE IF k = 2 THEN "Q2" ELSE "Q3")

\* splits[0].trim_start_matches('<').trim_end_matches('>')
trim_matches(raw) ==
    IF raw = "<e/Q1>" THEN "e/Q1"
    ELSE IF raw = "<e/Q2>" THEN "e/Q2"
    ELSE IF raw = "<e/Q3>" THEN "e/Q3"
    ELSE raw

\* the types of parse_entity: the items that match the pattern, captured
RECURSIVE parse_types(_, _)
parse_types(column, ignore_types) ==
    IF ignore_types \/ column = <<>> THEN <<>>
    ELSE LET cap == ent_pattern(Head(column))
         IN  (IF cap = None THEN <<>> ELSE cap) \o parse_types(Tail(column), ignore_types)

\* parse_entity, for the columns that matter here
parse_entity(line, ignore_types) ==
    [label |-> line.label, desc |-> line.desc, count |-> line.count, aliases |-> <<>>,
     types |-> parse_types(line.types, ignore_types)]

TypeInputsOf(n) ==
    {[k \in 1..n |-> [ent |-> FirstColumn(k, uri), label |-> l[k], desc |-> "x",
                      count |-> c[k], types |-> t[k]]] :
        uri \in BOOLEAN, l \in [1..n -> TypeLabels], c \in [1..n -> 1..MaxCount],
        t \in [1..n -> SeqsUpTo(TypeItems, MaxTypes)]}

TypeInputs == UNION {TypeInputsOf(n) : n \in 1..NumTypeEnts}

\* the state when the loop over the lines is over and the rewriting begins
InitTypes ==
    /\ bin = "kg-entities"
    /\ args \in [ignore_types : BOOLEAN, keep_most_common_non_unique : BOOLEAN,
                  check_for_popular_aliases : {FALSE}]
    /\ pc = "types"
    /\ lines \in TypeInputs
    /\ ent_infos = [k \in 1..Len(lines) |-> parse_entity(lines[k], args.ignore_types)]
    /\ types_left = 1..Len(lines)
    /\ label_to_ents = LoadLabelToEnts(ent_infos)
    /\ aliases_to_ents = EmptyMap
    /\ NoRedirects /\ NoOutputs /\ NoProps
    /\ label_to_ent = EmptyMap
    /\ label_info_to_ents = EmptyMap
    /\ label_desc_to_ents = EmptyMap
    /\ ents_left = {}
    /\ alias_queue = <<>>
    /\ stats = NoStats
    /\ index_tsv = EmptyMap

\* ent_infos.get(type_id): the records stored under this identifier
Stored(type_id) == {k \in 1..Len(lines) : trim_matches(lines[k].ent) = type_id}

\* ent_infos.get(type_id).map(|info| info.count).unwrap_or(0)
TypeCount(type_id) ==
    IF Stored(type_id) = {} THEN 0 ELSE ent_infos[CHOOSE k \in Stored(type_id) : TRUE].count

\* types.sort_by_key: a stable sort, ascending
RECURSIVE InsertType(_, _)
InsertType(sorted, type_id) ==
    IF sorted = <<>> THEN <<type_id>>
    ELSE IF TypeCount(sorted[Len(sorted)]) <= TypeCount(type_id)
    THEN Append(sorted, type_id)
    ELSE Append(InsertType(SubSeq(sorted, 1, Len(sorted) - 1), type_id), sorted[Len(sorted)])

RECURSIVE SortTypes(_)
SortTypes(types) ==
    IF types = <<>> THEN <<>>
    ELSE InsertType(SortTypes(SubSeq(types, 1, Len(types) - 1)), types[Len(types)])

\* filter_map(|type_id| ent_infos.get(type_id).map(|info| info.label))
RECURSIVE TypeLabelsOf(_)
TypeLabelsOf(types) ==
    IF types = <<>> THEN <<>>
    ELSE (IF Stored(Head(types)) = {} THEN <<>>
          ELSE <<ent_infos[CHOOSE k \in Stored(Head(types)) : TRUE].label>>)
         \o TypeLabelsOf(Tail(types))

\* the closure of for_each on one record; the records come in hash order
RewriteTypes(e) ==
    /\ bin = "kg-entities"
    /\ pc = "types"
    /\ e \in types_left
    /\ ent_infos' = [ent_infos EXCEPT ![e].types = TypeLabelsOf(SortTypes(ent_infos[e].types))]
    /\ types_left' = types_left \ {e}
    /\ UNCHANGED <<bin, args, pc, label_to_ents, aliases_to_ents, label_to_ent,
                   label_info_to_ents, label_desc_to_ents, ents_left, alias_queue, stats,
                   index_tsv, lines, redirect_lines, redirects, output_dict, workers,
                   output, parsed, prop_infos, label_to_prop, prop_queue>>

\* all type lists are rewritten: the first pass begins
FinishTypes ==
    /\ bin = "kg-entities"
    /\ pc = "types"
    /\ types_left = {}
    /\ pc' = "labels"
    /\ UNCHANGED <<bin, args, ent_infos, label_to_ents, aliases_to_ents, label_to_ent,
                   label_info_to_ents, label_desc_to_ents, ents_left, alias_queue, stats,
                   index_tsv, others>>

NextTypes ==
    \/ \E e \in 1..NumTypeEnts : RewriteTypes(e)
    \/ FinishTypes

SpecTypes == InitTypes /\ [][NextTypes]_vars

---------------------------------------------------------------------------
(* Notions the claims are stated with *)

IsKG == bin = "kg-entities"
IsWD == bin = "wikidata-entities"
Keep == args.keep_most_common_non_unique
Check == args.check_for_popular_aliases

\* the loops of pass 1 and of pass 2 have run out
EndOfPass1 == pc = "labels" /\ DOMAIN label_to_ents = {}
EndOfPass2 ==
    /\ pc \in {"label_infos", "label_descs"}
    /\ DOMAIN label_info_to_ents = {}
    /\ DOMAIN label_desc_to_ents = {}

WithLabel(l) == {e \in Ents : ent_infos[e].label = l}
Listing(a) == {e \in Ents : a \in Range(ent_infos[e].aliases)}
Count(e) == ent_infos[e].count

HasKey(key) == key \in DOMAIN label_to_ent
MapsTo(key, e) == HasKey(key) /\ label_to_ent[key].ent = e
KeysOf(e) == {k \in DOMAIN label_to_ent : label_to_ent[k].ent = e}
LabelKeysOf(e) ==
    {k \in KeysOf(e) : label_to_ent[k].kind \in {"Label", "LabelInfo", "LabelDesc"}}
Kinds == {label_to_ent[k].kind : k \in DOMAIN label_to_ent}

InPool(e) ==
    \E k \in DOMAIN label_info_to_ents :
        \E i \in 1..Len(label_info_to_ents[k]) : label_info_to_ents[k][i][2] = e

\* pass 1 visits the group of label l in this step
Visits(l) == pc = "labels" /\ l \in DOMAIN label_to_ents /\ l \notin DOMAIN label_to_ents'

---------------------------------------------------------------------------
(* C1: in kg-entities a committed key keeps its entry in every later state: no  *)
(* step of the three passes replaces or removes an entry, and no               *)
(* insert(..).is_none() assertion fails.                                        *)
C1_KeysKeepTheirId ==
    [][IsKG =>
        /\ pc' # "panic"
        /\ \A k \in DOMAIN label_to_ent :
              k \in DOMAIN label_to_ent' /\ label_to_ent'[k] = label_to_ent[k]]_vars

\* the three passes have committed keys, and an alias was refused a key that
\* another entity holds
C1_Witness ==
    /\ IsKG /\ pc = "done"
    /\ {"Label", "LabelInfo", "Alias"} \subseteq Kinds
    /\ \E a \in AliasTexts : \E e \in Listing(a) : HasKey(<<a, None>>) /\ ~MapsTo(<<a, None>>, e)

(* C2: in kg-entities no surface string of index.tsv stands in the rows of two  *)
(* different ids.                                                               *)
C2_OneIdPerSurface ==
    (IsKG /\ pc = "done") =>
        \A e1, e2 \in DOMAIN index_tsv :
            e1 # e2 => Range(index_tsv[e1]) \cap Range(index_tsv[e2]) = {}

(* C3: in wikidata-entities the label + description pass never changes the     *)
(* entry of a key that the bare-label pass committed.                           *)
C3_BareKeysKept ==
    [][(IsWD /\ pc = "label_descs") =>
        \A k \in DOMAIN label_to_ent :
            label_to_ent[k].kind = "Label" => label_to_ent'[k] = label_to_ent[k]]_vars

(* C4: in both binaries every id holds at most one own-label key (Label,        *)
(* LabelInfo or LabelDesc), at the end of pass 2 no id holds two keys, and the  *)
(* output assertion org_label.len() + info_label.len() <= 1 does not fail.      *)
C4_OneLabelKeyPerId ==
    /\ \A e \in Ents : Cardinality(LabelKeysOf(e)) <= 1
    /\ EndOfPass2 => \A e \in Ents : Cardinality(KeysOf(e)) <= 1
    /\ pc # "panic"

\* the output was written for an id that holds an own-label key and other keys
C4_Witness ==
    /\ pc = "done"
    /\ \E e \in DOMAIN index_tsv :
          Cardinality(LabelKeysOf(e)) = 1 /\ Cardinality(KeysOf(e)) > 1
    /\ "LabelDesc" \in Kinds

(* C5: in kg-entities with keep_most_common_non_unique, the one most frequent   *)
(* record m of a label shared by two or more records holds (label, none) at the *)
(* end of pass 2, unless the oracle vetoes m.                                   *)
C5_MostFrequentGetsBareLabel ==
    (IsKG /\ EndOfPass2 /\ Keep) =>
        \A l \in Labels : \A m \in WithLabel(l) :
            ( /\ Cardinality(WithLabel(l)) >= 2
              /\ \A e \in WithLabel(l) \ {m} : Count(e) < Count(m)
              /\ ~Vetoed(l, m) )
            => MapsTo(<<l, None>>, m)

(* C6: in kg-entities, for a label held by the one record r: at the end of      *)
(* pass 1 (label, none) maps to r when the oracle does not veto r; otherwise    *)
(* (label, none) is no key and r is in the qualified pool.                      *)
C6_SingleMember ==
    (IsKG /\ EndOfPass1) =>
        \A l \in Labels : \A r \in Ents :
            WithLabel(l) = {r} =>
                IF ~Vetoed(l, r)
                THEN MapsTo(<<l, None>>, r)
                ELSE ~HasKey(<<l, None>>) /\ InPool(r)

\* the bare key at the end of pass 1
C6_BareKey ==
    (IsKG /\ EndOfPass1) =>
        \A l \in Labels : \A r \in Ents :
            WithLabel(l) = {r} =>
                IF ~Vetoed(l, r) THEN MapsTo(<<l, None>>, r) ELSE ~HasKey(<<l, None>>)

\* a vetoed single record is pushed exactly when it has a qualifier and
\* "label (qualifier)" is no bare key at the time its group is visited
C6_Pushed ==
    \A l \in Labels : \A r \in Ents :
        (IsKG /\ Visits(l) /\ WithLabel(l) = {r} /\ Vetoed(l, r)) =>
            (InPool(r)' <=>
                (info(r) # "" /\ ~HasKey(<<format(l, info(r)), None>>)))

\* pass 1 takes nothing out of the pool
C6_PoolKept == \A r \in Ents : (IsKG /\ pc = "labels" /\ InPool(r)) => InPool(r)'

(* C6, amended: as C6, but a vetoed record r is pushed into the qualified pool  *)
(* exactly when its qualifier is not empty and "label (qualifier)" is no bare   *)
(* key when its group is visited; otherwise r is dropped. What was pushed stays *)
(* in the pool to the end of pass 1.                                            *)
C6_SingleMemberAmended == []C6_BareKey /\ [][C6_Pushed /\ C6_PoolKept]_vars

\* pass 1 has ended with a vetoed single record in the pool
C6_Witness ==
    /\ IsKG /\ EndOfPass1
    /\ \E l \in Labels : \E r \in Ents :
          WithLabel(l) = {r} /\ Vetoed(l, r) /\ InPool(r) /\ ~HasKey(<<l, None>>)

(* C7: in kg-entities without keep_most_common_non_unique, a label shared by    *)
(* two or more records is no bare key at the end of pass 2.                     *)
C7_NoBareKeyWithoutKeep ==
    (IsKG /\ EndOfPass2 /\ ~Keep) =>
        \A l \in Labels : Cardinality(WithLabel(l)) >= 2 => ~HasKey(<<l, None>>)

(* C8: the oracle of kg-entities answers a for (label, e) exactly when a # e,   *)
(* label is in the retained alias pool as an alias of a and count(a) >          *)
(* count(e); in every other case, and always without check_for_popular_aliases, *)
(* it answers none.                                                             *)
C8_OracleAnswer ==
    IsKG =>
        \A l \in Labels \cup AliasTexts : \A e \in Ents :
            LET answer == check_for_more_popular_alias(l, e)
                better == {a \in Ents \ {e} :
                              /\ Check
                              /\ l \in DOMAIN aliases_to_ents
                              /\ a \in Range(aliases_to_ents[l])
                              /\ Count(a) > Count(e)}
            IN  /\ \A a \in Ents : answer = Some(a) <=> a \in better
                /\ better = {} => answer = None

\* pass 1 has asked the oracle about a single record and was given a better id
C8_Witness ==
    /\ IsKG /\ EndOfPass1
    /\ \E l \in Labels : \E e \in Ents :
          WithLabel(l) = {e} /\ check_for_more_popular_alias(l, e) # None

(* C9: in kg-entities with check_for_popular_aliases, when B alone has label L  *)
(* and another record C alone lists L as an alias: if count(C) > count(B), B    *)
(* never holds (L, none) and after the alias pass (L, none) maps to C; else     *)
(* (L, none) maps to B.                                                         *)
C9_PopularAliasOverride ==
    (IsKG /\ Check) =>
        \A L \in Labels : \A B, C \in Ents :
            (WithLabel(L) = {B} /\ C # B /\ Listing(L) = {C}) =>
                IF Count(C) > Count(B)
                THEN /\ ~MapsTo(<<L, None>>, B)
                     /\ pc = "done" => MapsTo(<<L, None>>, C)
                ELSE pc = "done" => MapsTo(<<L, None>>, B)

(* C10: in kg-entities with keep_most_common_non_unique and without the oracle, *)
(* when exactly r1 and r2 share label L, with distinct non-empty qualifiers q1, *)
(* q2 and count(r1) > count(r2): at the end of pass 2 (L, none) maps to r1,     *)
(* (L, q2) maps to r2 and (L, q1) is no key.                                    *)
C10_QualifierEscalation ==
    (IsKG /\ EndOfPass2 /\ Keep /\ ~Check) =>
        \A L \in Labels : \A r1, r2 \in Ents :
            ( /\ WithLabel(L) = {r1, r2}
              /\ info(r1) # "" /\ info(r2) # "" /\ info(r1) # info(r2)
              /\ Count(r1) > Count(r2) )
            => /\ MapsTo(<<L, None>>, r1)
               /\ MapsTo(<<L, Some(info(r2))>>, r2)
               /\ ~HasKey(<<L, Some(info(r1))>>)

(* C11: in the alias pass of kg-entities, the offer of alias a by record r      *)
(* commits (a, none) to r as Alias when that key is free; else commits (a, q)   *)
(* to r as AliasInfo when r's qualifier q is not empty and that key is free;    *)
(* else leaves the index as it is. The offers of a record come in the order of  *)
(* its alias list, and every key of before keeps its entry.                     *)
C11_AliasBackfill ==
    [][(IsKG /\ pc = "aliases" /\ alias_queue # <<>>) =>
        LET r == Head(alias_queue)[1]
            a == Head(alias_queue)[2]
            q == info(r)
            offers == SelectSeq(alias_queue, LAMBDA o : o[1] = r)
            rest == ent_infos[r].aliases
        IN  /\ a = rest[Len(rest) - Len(offers) + 1]
            /\ \A k \in DOMAIN label_to_ent :
                  k \in DOMAIN label_to_ent' /\ label_to_ent'[k] = label_to_ent[k]
            /\ IF ~HasKey(<<a, None>>)
               THEN /\ DOMAIN label_to_ent' = DOMAIN label_to_ent \cup {<<a, None>>}
                    /\ label_to_ent'[<<a, None>>] = Ent("Alias", r)
               ELSE IF q # "" /\ ~HasKey(<<a, Some(q)>>)
               THEN /\ DOMAIN label_to_ent' = DOMAIN label_to_ent \cup {<<a, Some(q)>>}
                    /\ label_to_ent'[<<a, Some(q)>>] = Ent("AliasInfo", r)
               ELSE label_to_ent' = label_to_ent]_vars

\* the alias pass has committed a bare alias and a qualified alias
C11_Witness ==
    /\ IsKG /\ pc = "aliases" /\ alias_queue = <<>>
    /\ {"Alias", "AliasInfo"} \subseteq Kinds

\* the record of greatest count among those that list a, the smallest id among equals
BestLister(a) ==
    CHOOSE e \in Listing(a) :
        \A e2 \in Listing(a) \ {e} :
            Count(e) > Count(e2) \/ (Count(e) = Count(e2) /\ e < e2)

\* after the alias pass every listed alias text is a bare key; one the alias
\* pass committed maps to the best record that lists it
C12_Final ==
    (IsKG /\ pc = "aliases" /\ alias_queue = <<>>) =>
        \A a \in AliasTexts :
            Listing(a) # {} =>
                /\ HasKey(<<a, None>>)
                /\ is_alias(<<a, None>>) => MapsTo(<<a, None>>, BestLister(a))

\* the offer that finds (a, none) free is the best record's, and it is committed
C12_FirstOffer ==
    (IsKG /\ pc = "aliases" /\ alias_queue # <<>>) =>
        LET r == Head(alias_queue)[1]
            a == Head(alias_queue)[2]
        IN  ~HasKey(<<a, None>>) =>
                /\ r = BestLister(a)
                /\ <<a, None>> \in DOMAIN label_to_ent'
                /\ label_to_ent'[<<a, None>>].ent = r

(* C12: in kg-entities an alias text a that is listed by a record and is no key *)
(* at the end of pass 2 is committed by the alias pass: (a, none) then maps to  *)
(* the record of greatest count that lists a, the smallest id among equal       *)
(* counts, also when two or more records list a and the oracle's pool dropped   *)
(* it.                                                                          *)
C12_AliasToMostFrequent == []C12_Final /\ [][C12_FirstOffer]_vars

\* an alias dropped from the oracle's pool went to the most frequent of the
\* records that list it, which is not the one of smallest id
C12_Witness ==
    /\ IsKG /\ Check /\ pc = "done"
    /\ \E a \in AliasTexts :
          /\ Cardinality(Listing(a)) >= 2
          /\ a \notin DOMAIN aliases_to_ents
          /\ is_alias(<<a, None>>) /\ MapsTo(<<a, None>>, BestLister(a))
          /\ \E e \in Listing(a) : e < BestLister(a)

\* every offer of r1 stands before every offer of r2 in the queue q
OffersBefore(q, r1, r2) ==
    \A i, j \in 1..Len(q) : (q[i][1] = r1 /\ q[j][1] = r2) => i < j

\* the step that sets up the alias pass of wikidata-entities
WD_StartsAliases == IsWD /\ pc = "label_descs" /\ pc' = "aliases"

C13_LeftoverFirst ==
    WD_StartsAliases =>
        \A r1, r2 \in Ents :
            ( \/ r1 \in ents_left /\ r2 \notin ents_left
              \/ (r1 \in ents_left <=> r2 \in ents_left) /\ Count(r1) > Count(r2) )
            => OffersBefore(alias_queue', r1, r2)

\* the offers are taken from the head of the queue, one at each step
C13_InOrder ==
    (IsWD /\ pc = "aliases" /\ alias_queue # <<>>) => alias_queue' = Tail(alias_queue)

Members(key) ==
    {label_info_to_ents[key][i][2] : i \in 1..Len(label_info_to_ents[key])}

\* the visit of a group of two or more members
C14_Group ==
    (IsKG /\ pc = "label_infos") =>
        \A key \in DOMAIN label_info_to_ents :
            (key \notin DOMAIN label_info_to_ents' /\ Cardinality(Members(key)) >= 2) =>
                IF Keep
                THEN \E m \in Members(key) :
                        /\ \A e \in Members(key) : Count(e) <= Count(m)
                        /\ Cardinality(LabelKeysOf(m)') = 1
                        /\ \A e \in Members(key) \ {m} :
                              e \in ents_left' /\ LabelKeysOf(e)' = {}
                ELSE \A e \in Members(key) : e \in ents_left' /\ LabelKeysOf(e)' = {}

\* to the end of pass 2 a leftover record stays one and gets no label key, and
\* a label key stays with its record
C14_Stays ==
    (IsKG /\ pc = "label_infos") =>
        \A e \in Ents :
            /\ e \in ents_left => (e \in ents_left' /\ LabelKeysOf(e)' = {})
            /\ LabelKeysOf(e) \subseteq LabelKeysOf(e)'

(* C14: pass 2 of kg-entities, at a (label, qualifier) group of two or more     *)
(* members: with keep_most_common_non_unique one member of greatest count gets  *)
(* a label key and every other member is put in ents_left without a label key;  *)
(* without the option every member is put in ents_left without a label key.     *)
(* This lasts to the end of pass 2.                                             *)
C14_MultiMemberGroup == [][C14_Group /\ C14_Stays]_vars

\* pass 2 has ended, a member of a shared group holds a label key and a less
\* frequent member of the same group is left over
C14_Witness ==
    /\ IsKG /\ EndOfPass2 /\ Keep
    /\ \E m, e \in Ents :
          /\ ent_infos[m].label = ent_infos[e].label /\ info(m) = info(e)
          /\ Count(m) > Count(e)
          /\ LabelKeysOf(m) # {} /\ e \in ents_left /\ LabelKeysOf(e) = {}

(* C15: in kg-entities a record with an empty qualifier that did not get the    *)
(* bare key of its label in pass 1 is in ents_left at the end of pass 2, and    *)
(* the statistic "entities left" counts it.                                     *)
C15_EmptyQualifierLeft ==
    (IsKG /\ EndOfPass2) =>
        \A e \in Ents :
            (info(e) = "" /\ ~MapsTo(<<ent_infos[e].label, None>>, e)) => e \in ents_left

(* C16: the final index of kg-entities is the same for every order in which     *)
(* pass 1 may visit the label groups: the index a run ends with is the index of *)
(* each of these orders.                                                        *)
C16_OrderIndependent ==
    (IsKG /\ pc = "done") => \A order \in LabelOrders : label_to_ent = IndexOf(order)

\* the ids that hold at least one key
Held == {label_to_ent[k].ent : k \in DOMAIN label_to_ent}

(* C17: in wikidata-entities the number of ids that hold at least one key does  *)
(* not decrease in any step of the three passes, a commit under a key that      *)
(* exists included.                                                             *)
C17_CoverageGrows ==
    [][IsWD => Cardinality(Held') >= Cardinality(Held)]_vars

\* the label + description pass has committed under the bare key of a record,
\* which holds no key any more
C17_Witness ==
    /\ IsWD /\ pc = "label_descs"
    /\ \E e \in Ents :
          /\ WithLabel(ent_infos[e].label) = {e}
          /\ ~Vetoed(ent_infos[e].label, e)
          /\ KeysOf(e) = {}
          /\ HasKey(ent_infos[e].label)
          /\ label_to_ent[ent_infos[e].label].kind = "LabelDesc"

(* C18: in kg-entities with check_for_popular_aliases an alias text is dropped  *)
(* from the oracle's pool exactly when records of more than one id list it; an  *)
(* alias that one record alone lists, be it more than once, stays in the pool.  *)
C18_PoolDropsSharedAliases ==
    (IsKG /\ Check) =>
        \A a \in AliasTexts :
            Listing(a) # {} =>
                (a \notin DOMAIN aliases_to_ents <=> Cardinality(Listing(a)) > 1)

\* the kinds of the keys an id holds
KindsOf(e) == {label_to_ent[k].kind : k \in KeysOf(e)}

(* C19: the label wikidata-entities sorts the aliases of an id against is its   *)
(* Label or LabelDesc text if it has one; otherwise its raw label whenever it   *)
(* holds an Alias or AliasDesc key; "label (description)" only for an id with   *)
(* none of these keys and a description.                                        *)
C19_CanonicalLabel ==
    (IsWD /\ pc = "done") =>
        \A e \in DOMAIN index_tsv :
            index_tsv[e].label =
                IF LabelKeysOf(e) # {} THEN CHOOSE k \in LabelKeysOf(e) : TRUE
                ELSE IF KindsOf(e) \cap {"Alias", "AliasDesc"} # {}
                THEN ent_infos[e].label
                ELSE IF ent_infos[e].desc # ""
                THEN format(ent_infos[e].label, ent_infos[e].desc)
                ELSE ent_infos[e].label

(* C19, amended: the label is the Label or LabelDesc text if the id has one;    *)
(* otherwise the raw label when the id holds an Alias key or has no             *)
(* description; otherwise, for an id that holds AliasDesc keys only and has a   *)
(* description, "label (description)".                                          *)
C19_CanonicalLabelAmended ==
    (IsWD /\ pc = "done") =>
        \A e \in DOMAIN index_tsv :
            index_tsv[e].label =
                IF LabelKeysOf(e) # {} THEN CHOOSE k \in LabelKeysOf(e) : TRUE
                ELSE IF "Alias" \in KindsOf(e) \/ ent_infos[e].desc = ""
                THEN ent_infos[e].label
                ELSE format(ent_infos[e].label, ent_infos[e].desc)

\* the output was written for an id that holds AliasDesc keys only
C19_Witness ==
    /\ IsWD /\ pc = "done"
    /\ \E e \in DOMAIN index_tsv :
          /\ KindsOf(e) = {"AliasDesc"}
          /\ index_tsv[e].label = format(ent_infos[e].label, ent_infos[e].desc)

\* the place of a key's form in a row: own label, alias, qualified alias
RowClass(k) ==
    IF label_to_ent[k].kind \in {"Label", "LabelInfo"} THEN 1
    ELSE IF label_to_ent[k].kind = "Alias" THEN 2 ELSE 3

(* C20: the row kg-entities writes for an id lists the forms of its keys, each  *)
(* once: the OwnLabel or OwnLabelQualified form (if any), then the Alias forms, *)
(* then the AliasQualified forms; an id with an own-label form and alias forms  *)
(* has the own-label form first.                                                *)
C20_RowOrder ==
    (IsKG /\ pc = "done") =>
        \A e \in DOMAIN index_tsv :
            /\ \E keys \in Orders(KeysOf(e)) :
                  /\ index_tsv[e] = Texts(keys)
                  /\ \A i, j \in 1..Len(keys) : i < j => RowClass(keys[i]) <= RowClass(keys[j])
            /\ \A k \in LabelKeysOf(e) : index_tsv[e][1] = Surface(k)

\* a row was written with an own label, an alias and a qualified alias
C20_Witness ==
    /\ IsKG /\ pc = "done"
    /\ \E e \in DOMAIN index_tsv :
          /\ LabelKeysOf(e) # {}
          /\ {"Alias", "AliasInfo"} \subseteq {label_to_ent[k].kind : k \in KeysOf(e)}
          /\ Len(index_tsv[e]) = 3

\* the text of index.tsv is made of whole rows: the id, the forms and the end of
\* the line of one entity, row after row (the last row may be in progress)
WholeRows(text) ==
    \A i \in 1..Len(text) :
        /\ text[i].part = (IF i % 3 = 1 THEN "id" ELSE IF i % 3 = 2 THEN "forms" ELSE "newline")
        /\ i % 3 # 1 => text[i].ent = text[i - 1].ent

(* C21: in the output step of kg-entities, whatever the interleaving of the     *)
(* worker threads, the text of index.tsv is made of whole rows at every moment, *)
(* and when the step is over it has exactly one row for each id that holds a    *)
(* key, with the forms of this id, and no other row.                            *)
C21_OneWholeRowPerId ==
    (IsKG /\ pc \in {"outputs", "done"}) =>
        /\ WholeRows(output.text)
        /\ pc = "done" =>
              /\ Len(output.text) = 3 * Cardinality(Held)
              /\ \A e \in Held :
                    /\ Cardinality({i \in 1..Len(output.text) :
                                       output.text[i].ent = e /\ output.text[i].part = "id"}) = 1
                    /\ \E i \in 1..Len(output.text) :
                          /\ output.text[i].ent = e /\ output.text[i].part = "forms"
                          /\ Range(output.text[i].forms) = {Surface(k) : k \in KeysOf(e)}

\* a worker is writing its row through the guard while another worker has its
\* row ready and waits for the lock
C21_Witness ==
    /\ IsKG /\ pc = "outputs"
    /\ \E w1, w2 \in Workers :
          /\ workers[w1] # None /\ workers[w1][1].at = 2
          /\ workers[w2] # None /\ workers[w2][1].at = 0

\* the run is kg-properties
IsKP == bin = "kg-properties"

(* C22: in kg-properties, a line whose identifier was parsed before is a fatal *)
(* error: the run aborts, and the record stored for the identifier is never    *)
(* replaced by the later line.                                                 *)
C22_DuplicateIdIsFatal ==
    [][(IsKP /\ pc = "parse" /\ parsed < Len(lines)
          /\ lines[parsed + 1].prop \in DOMAIN prop_infos)
       => (pc' = "panic" /\ prop_infos' = prop_infos)]_vars

\* the label texts of the input
LabelTexts == {lines[i].label : i \in 1..Len(lines)}

\* the properties whose stored record lists an alias
Listers(alias) ==
    {p \in DOMAIN prop_infos :
        \E i \in 1..Len(prop_infos[p].aliases) : prop_infos[p].aliases[i] = alias}

\* the alias texts of the stored records
ListedTexts == {a \in PropAliasTexts : Listers(a) # {}}

\* the number of times an alias stands in the alias lists of the stored records
TimesListed(alias) == Occurrences(alias, AliasLists)

\* the alias pass of kg-properties has run and is over
PropAliasesDone ==
    /\ IsKP /\ ~args.no_aliases
    /\ \/ pc = "aliases" /\ prop_queue = <<>>
       \/ pc \in {"done", "panic"}

C25_LabelAssertionHolds ==
    IsKP =>
        /\ pc # "panic"
        /\ (pc = "done" \/ (pc = "aliases" /\ prop_queue = <<>>)) =>
              \A p \in {label_to_prop[l].prop : l \in DOMAIN label_to_prop} :
                  PropForms(p, "Label") # {}

\* the first line among the lines of greatest count that carry a label
FirstBest(label) ==
    CHOOSE i \in 1..Len(lines) :
        /\ lines[i].label = label
        /\ \A j \in 1..Len(lines) :
              lines[j].label = label =>
                  \/ lines[j].count < lines[i].count
                  \/ lines[j].count = lines[i].count /\ i <= j

\* each label maps to the property of the first line of greatest count
LabelsToFirstBest ==
    \A l \in LabelTexts :
        /\ l \in DOMAIN label_to_prop
        /\ label_to_prop[l] = Prop("Label", lines[FirstBest(l)].prop)

(* C26: in kg-properties, after the label pass each label text maps to the     *)
(* property of greatest count among those carrying the label, the first in     *)
(* the input among those of equal greatest count; the alias pass never changes *)
(* the property a label key maps to.                                           *)
C26_LabelToGreatestCount ==
    /\ []((IsKP /\ (pc # "parse" \/ parsed = Len(lines))) => LabelsToFirstBest)
    /\ [][(IsKP /\ pc = "aliases") =>
             \A l \in DOMAIN label_to_prop : label_to_prop'[l] = label_to_prop[l]]_vars

\* a line of the redirects file is well formed: its source and all of its
\* targets match the pattern
Matches(line) ==
    /\ ent_pattern(line.source) # None
    /\ \A i \in 1..Len(line.targets) : ent_pattern(line.targets[i]) # None

\* the last well formed line with a target for an identifier, if any
LastRedirect(ent) ==
    LET good == {i \in 1..Len(redirect_lines) :
                    /\ Matches(redirect_lines[i])
                    /\ redirect_lines[i].targets # <<>>
                    /\ ent_pattern(redirect_lines[i].source) = Some(ent)}
    IN  IF good = {} THEN None
        ELSE Some(CHOOSE i \in good : \A j \in good : j <= i)

(* C23: in the loading of the redirects of kg-entities, a line one of whose    *)
(* targets does not match the identifier pattern is passed over: it never      *)
(* aborts the run, and when the loading is over the redirects of all the other *)
(* lines are loaded.                                                           *)
C23_BadTargetSkipped ==
    (IsKG /\ redirect_lines # <<>>) =>
        /\ pc # "panic"
        /\ pc = "loading" =>
              \A ent \in {"Q1", "Q2"} :
                  IF LastRedirect(ent) = None
                  THEN ent \notin DOMAIN redirects
                  ELSE /\ ent \in DOMAIN redirects
                       /\ redirects[ent] = Redirs(redirect_lines[LastRedirect(ent)[1]])

\* the entity a text of the input names, whatever its form
EntityOf(raw) ==
    IF raw \in {"<e/Q1>", "Q1"} THEN 1
    ELSE IF raw \in {"<e/Q2>", "Q2"} THEN 2
    ELSE IF raw \in {"<e/Q3>", "Q3"} THEN 3
    ELSE 0

\* the records that the column of types of a line names
RecordTypes(e) ==
    {k \in 1..Len(lines) :
        \E i \in 1..Len(lines[e].types) : EntityOf(lines[e].types[i]) = EntityOf(lines[k].ent)}

\* the labels of the most frequent records among the types of a line
BestTypeLabels(e) ==
    {lines[k].label : k \in {m \in RecordTypes(e) :
                                \A o \in RecordTypes(e) : lines[o].count <= lines[m].count}}

(* C27: in kg-entities, when the type lists are rewritten, in whatever order,  *)
(* the qualifier of a record is the label of a most frequent record among the  *)
(* types the record lists (a type that is no record is ignored), and it is the *)
(* description when no listed type is a record or when ignore_types is set.    *)
C27_QualifierFromTypes ==
    (IsKG /\ lines # <<>> /\ pc = "labels") =>
        \A e \in 1..Len(lines) :
            IF args.ignore_types \/ RecordTypes(e) = {}
            THEN info(e) = lines[e].desc
            ELSE info(e) \in BestTypeLabels(e)

====
